---- MODULE Spec2Model ----
(***************************************************************************)
(* The independence check of Prepack's additional (optimized) functions:   *)
(* src/src/serializer/functions.js, class Functions.                        *)
(*                                                                         *)
(* One behaviour is one call of an entry point of the class on one input:  *)
(*   entry = "check"  checkThatFunctionsAreIndependent over the registry    *)
(*                    of designated functions `funcs`;                      *)
(*   entry = "react"  _generateWriteEffectsForReactComponentTree on the     *)
(*                    effects of one rendered component.                    *)
(* The abstract interpreter is outside the class. A designated function is *)
(* given by what the interpreter makes of it: its formal parameters, the   *)
(* completion its evaluation ends in, and the sequence of heap operations  *)
(* its body performs (each at a source location).                          *)
(***************************************************************************)
EXTENDS Integers, Sequences, FiniteSets, TLC

\* ------------------------------------------------------------ bounds
\* The registry holds at most NumFuns designated functions.
NumFuns == 2
\* Size of a registry: formal parameters + body operations + outcomes that
\* are not a plain value, summed over its functions.
MaxSize == 2
\* Source locations are 1..NumLocs; NoLoc is realm.currentLocation unset.
NumLocs == 2

NoLoc == 0
Locs == 1..NumLocs

Min(a, b) == IF a < b THEN a ELSE b

\* ------------------------------------------------------------ heap
Objects == {"g", "o"}
\* PropertyBinding identities: (object, key).
Bindings == {<<"g", "a">>, <<"g", "b">>, <<"o", "a">>}

\* ------------------------------------------------------------ completions
\* What effects[0] can be. "undefined" is realm.intrinsics.undefined, "Value"
\* any other Value; the rest are Completion subclasses.
IsValue(x) == x \in {"undefined", "Value"}
\* x instanceof Completion
IsCompletion(x) ==
    x \in {"ReturnCompletion", "ThrowCompletion", "JoinedAbruptCompletions",
           "PossiblyNormalCompletion"}
BranchOutcomes ==
    {"Value", "ReturnCompletion", "ThrowCompletion", "JoinedAbruptCompletions",
     "PossiblyNormalCompletion"}

None == "none"
\* A result: its class and, for a PossiblyNormalCompletion, its two branches
\* with the effects of each branch: an object with its own identity, of which
\* only slot [0], the branch's result, is read or written by this class.
PlainResult(kind) ==
    [kind |-> kind, consequent |-> None, alternate |-> None,
     consequentEffects |-> [id |-> None, result |-> None],
     alternateEffects |-> [id |-> None, result |-> None]]
PossiblyNormal(c, a) ==
    [kind |-> "PossiblyNormalCompletion", consequent |-> c, alternate |-> a,
     consequentEffects |-> [id |-> "consequentEffects", result |-> c],
     alternateEffects |-> [id |-> "alternateEffects", result |-> a]]

\* Results by size: a function that completes with a plain value has size 0.
ResultsOfSize(w) ==
    IF w = 0 THEN {PlainResult("Value")}
    ELSE IF w = 1 THEN
        {PlainResult(k) : k \in {"undefined", "ReturnCompletion", "ThrowCompletion",
                                "JoinedAbruptCompletions"}}
        \cup {PossiblyNormal(c, a) : c \in BranchOutcomes, a \in BranchOutcomes}
    ELSE {}

\* ------------------------------------------------------------ function bodies
\* One operation of a body as the interpreter performs it:
\*   read / write   a property access to binding (ob, key) at location loc
\*                  (loc = NoLoc: inside the call machinery, no location);
\*                  a read in the body may feed an operation that raises a
\*                  "runtime" error outside pure evaluation;
\*   enum           an enumeration of the own properties of ob at loc;
\*   impure         an operation that pure evaluation tolerates and that
\*                  raises outside it: a "runtime" error (a FatalError, which
\*                  the error-ignoring scope suppresses) or an "internal"
\*                  error (any other exception, which propagates).
Access(op, b, loc) == [op |-> op, ob |-> b[1], key |-> b[2], loc |-> loc, raises |-> None]
Statements ==
    {Access(op, b, loc) : op \in {"read", "write"}, b \in Bindings, loc \in Locs \cup {NoLoc}}
    \cup {[Access("read", b, loc) EXCEPT !.raises = "runtime"] : b \in Bindings, loc \in Locs}
    \cup {[op |-> "enum", ob |-> o, key |-> None, loc |-> loc, raises |-> None] :
            o \in Objects, loc \in Locs}
    \cup {[op |-> "impure", ob |-> None, key |-> None, loc |-> NoLoc, raises |-> r] :
            r \in {"runtime", "internal"}}

\* ------------------------------------------------------------ parameters
ParamKinds == {"Identifier", "ObjectPattern", "RestElement"}
\* A rest element is the last formal parameter.
ParamLists(n) ==
    {p \in [1..n -> ParamKinds] : \A x \in 1..n : p[x] = "RestElement" => x = n}

\* funcValue.getLength(): the number of formal parameters before the first
\* rest element (ECMAScript ExpectedArgumentCount; no defaults in ParamKinds).
RECURSIVE GetLength(_)
GetLength(params) ==
    IF params = <<>> \/ Head(params) = "RestElement" THEN 0
    ELSE 1 + GetLength(Tail(params))

\* ------------------------------------------------------------ inputs
FunctionsOfSize(w) ==
    UNION { UNION { {[params |-> p, result |-> r, body |-> b] :
                        p \in ParamLists(wp), r \in ResultsOfSize(wr),
                        b \in [1..(w - wp - wr) -> Statements]} :
                    wr \in 0..Min(1, w - wp) } :
            wp \in 0..w }

\* The registries of n functions of total size at most w, in enumeration order.
RECURSIVE Registries(_, _)
Registries(n, w) ==
    IF n = 0 THEN {<<>>}
    ELSE UNION { {<<f>> \o rest : f \in FunctionsOfSize(v), rest \in Registries(n - 1, w - v)} :
                 v \in 0..w }

\* The values the two hook slots of the realm hold before the entry point is
\* called: whatever the embedder installed, one identity per slot.
NoHook(slot) == [kind |-> slot, fname |-> 0, pbs |-> {}, writtenObjects |-> {}]
PriorPropertyAccess == NoHook("priorReportPropertyAccess")
PriorGetOwnProperties == NoHook("priorReportObjectGetOwnProperties")

\* Absent fields of a summary, the null return, the empty Map.
Absent == [kind |-> "absent"]
Null == [kind |-> "null"]
EmptyMap == <<>>
MapSet(m, key, v) == [x \in (DOMAIN m) \cup {key} |-> IF x = key THEN v ELSE m[x]]
FunKey(x) == <<"function", x>>

VARIABLES
    entry,          \* which entry point this behaviour runs
    funcs,          \* the registry (additionalFunctions), in enumeration order
    component,      \* react entry: the component's class-ness and tree status
    pc,             \* position in the code
    i, j, k,        \* fun1 / phase-1 index, fun2 index, position in fun2's body
    call,           \* the bound call built by _callOfFunction
    effects,        \* the Effects being summarised
    fatalOnAbrupt,  \* _createAdditionalEffects' second argument
    saved,          \* consequentResult, alternateResult (lines 154-155)
    joinedEffects,  \* local of _createAdditionalEffects
    retValue,       \* what _createAdditionalEffects returned
    writeEffects,   \* this.writeEffects: function identity -> summary
    conflicts,      \* the conflict Map, in insertion order
    reportPropertyAccess, reportObjectGetOwnProperties,   \* realm hook slots
    oldHooks,       \* oldReportPropertyAccess, oldReportObjectGetOwnProperties
    pending,        \* the exception in flight while the finally block runs
    evaluatedNode,  \* react entry: evaluatedNode.status
    handled,        \* log: diagnostics passed to realm.handleError
    joinLog,        \* log: arguments of each Join.joinEffects call
    applyLog,       \* log: effects applied by withEffectsAppliedInGlobalEnv
    shadowLog       \* log: the (fun1, fun2) pairs whose shadow evaluation began

vars == <<entry, funcs, component, pc, i, j, k, call, effects, fatalOnAbrupt,
          saved, joinedEffects, retValue, writeEffects, conflicts,
          reportPropertyAccess, reportObjectGetOwnProperties, oldHooks, pending,
          evaluatedNode, handled, joinLog, applyLog, shadowLog>>

\* ------------------------------------------------------------ the interpreter
\* realm.evaluatePure(evaluateForEffectsInGlobalEnv(call)): the outcome of the
\* body and the property bindings it wrote (effects[3]).
WriteSet(body) ==
    {<<body[x].ob, body[x].key>> : x \in {y \in 1..Len(body) : body[y].op = "write"}}
EvaluateForEffects(f) == [result |-> f.result, pbs |-> WriteSet(f.body)]

\* The react entry: the component rendered by the reconciler (line 245), as
\* a function without parameters whose rendering ends in any result.
RenderedComponents ==
    {<<[params |-> <<>>, result |-> r, body |-> <<>>]>> :
        r \in ResultsOfSize(0) \cup ResultsOfSize(1)}

\* ------------------------------------------------------------ initial states
NoEffects == [result |-> PlainResult("Value"), pbs |-> {}]
NoCall == [fun |-> 0, args |-> 0]
NoSaved == [consequentResult |-> None, alternateResult |-> None]
NoOldHooks == [propertyAccess |-> NoHook("unset"), getOwnProperties |-> NoHook("unset")]
NoComponent == [isClass |-> FALSE, status |-> "SIMPLE"]

InitCommon ==
    /\ i = 1 /\ j = 0 /\ k = 0
    /\ call = NoCall
    /\ fatalOnAbrupt = FALSE
    /\ saved = NoSaved
    /\ joinedEffects = Absent
    /\ retValue = Absent
    /\ writeEffects = EmptyMap
    /\ conflicts = <<>>
    /\ reportPropertyAccess = PriorPropertyAccess
    /\ reportObjectGetOwnProperties = PriorGetOwnProperties
    /\ oldHooks = NoOldHooks
    /\ pending = None
    /\ evaluatedNode = "ROOT"
    /\ handled = <<>>
    /\ joinLog = <<>>
    /\ applyLog = <<>>
    /\ shadowLog = <<>>

Init ==
    /\ InitCommon
    /\ \/ /\ entry = "check"
          /\ funcs \in UNION {Registries(n, MaxSize) : n \in 0..NumFuns}
          /\ component = NoComponent
          /\ effects = NoEffects
          /\ pc = "phase1"
       \/ /\ entry = "react"
          /\ funcs \in RenderedComponents
          /\ component \in [isClass : BOOLEAN, status : {"SIMPLE", "COMPLEX"}]
          /\ effects = EvaluateForEffects(funcs[1])
          /\ pc = "react"

NumFunctions == Len(funcs)

\* ------------------------------------------------------------ _callOfFunction
\* Lines 302-335. The parameters are visited only when the function's length
\* is positive; the first one that is not an identifier is fatal.
HasNonIdentifier(params) == \E x \in 1..Len(params) : params[x] # "Identifier"
CallIsFatal(f) == GetLength(f.params) > 0 /\ HasNonIdentifier(f.params)
CallArgs(f) == IF GetLength(f.params) > 0 THEN Len(f.params) ELSE 0

Diagnostic(code, loc, fname) == [code |-> code, loc |-> loc, fname |-> fname]

\* ------------------------------------------------------------ phase 1
\* Line 340: the loop over the registry; i is the function being summarised.
\* Line 342: build the call.
Phase1Call ==
    /\ pc = "phase1" /\ i <= NumFunctions
    /\ IF CallIsFatal(funcs[i])
       THEN /\ handled' = Append(handled, Diagnostic("PP1005", NoLoc, i))
            /\ pc' = "fatal"
            /\ call' = call
       ELSE /\ call' = [fun |-> i, args |-> CallArgs(funcs[i])]
            /\ pc' = "evaluate"
            /\ handled' = handled
    /\ UNCHANGED <<entry, funcs, component, i, j, k, effects, fatalOnAbrupt, saved,
                   joinedEffects, retValue, writeEffects, conflicts,
                   reportPropertyAccess, reportObjectGetOwnProperties, oldHooks,
                   pending, evaluatedNode, joinLog, applyLog, shadowLog>>

\* Lines 343-347: evaluate purely, then enter _createAdditionalEffects(effects, true).
Phase1Evaluate ==
    /\ pc = "evaluate"
    /\ effects' = EvaluateForEffects(funcs[call.fun])
    /\ fatalOnAbrupt' = TRUE
    /\ pc' = "createAdditionalEffects"
    /\ UNCHANGED <<entry, funcs, component, i, j, k, call, saved,
                   joinedEffects, retValue, writeEffects, conflicts,
                   reportPropertyAccess, reportObjectGetOwnProperties, oldHooks,
                   pending, evaluatedNode, handled, joinLog, applyLog, shadowLog>>

\* ------------------------------------------------------------ _createAdditionalEffects
\* Lines 129-132 testing for any abrupt completion, not only a return.
ContainsValueOrAbrupt(result) ==
    \/ IsValue(result.consequent)
    \/ result.consequent \in {"ReturnCompletion", "ThrowCompletion"}
    \/ IsValue(result.alternate)
    \/ result.alternate \in {"ReturnCompletion", "ThrowCompletion"}

\* Lines 128-135.
ContainsValue(result) ==
    \/ IsValue(result.consequent)
    \/ result.consequent = "ReturnCompletion"
    \/ IsValue(result.alternate)
    \/ result.alternate = "ReturnCompletion"
ContainsJoinedAbrupt(result) ==
    \/ result.consequent = "JoinedAbruptCompletions"
    \/ result.alternate = "JoinedAbruptCompletions"
\* The test of line 126 against the wrong class: any Completion.
IsAnyCompletion(result) == IsCompletion(result.kind)
IsPossiblyNormal(result) == result.kind = "PossiblyNormalCompletion"
Unsupported(result) ==
    IsPossiblyNormal(result) /\ ~ContainsValue(result) /\ ~ContainsJoinedAbrupt(result)

\* Line 124: retValue = { effects, transforms: [] }.
NewSummary(e) ==
    [effects |-> e, transforms |-> <<>>, joinedEffects |-> Absent,
     returnArguments |-> Absent, returnBuildNode |-> Absent]

\* Lines 123-148 and, when the result is no PossiblyNormalCompletion, 173.
CreateAdditionalEffects ==
    /\ pc = "createAdditionalEffects"
    /\ LET result == effects.result IN
       IF ~IsPossiblyNormal(result)
       THEN /\ retValue' = NewSummary(effects)
            /\ pc' = "returned"
            /\ handled' = handled
       ELSE IF Unsupported(result)
       THEN IF ~fatalOnAbrupt
            THEN /\ retValue' = Null
                 /\ pc' = "returned"
                 /\ handled' = handled
            ELSE /\ handled' = Append(handled, Diagnostic("PP1002", NoLoc, 0))
                 /\ pc' = "fatal"
                 /\ retValue' = retValue
       ELSE /\ pc' = "substitute"
            /\ retValue' = retValue
            /\ handled' = handled
    /\ UNCHANGED <<entry, funcs, component, i, j, k, call, effects, fatalOnAbrupt, saved,
                   joinedEffects, writeEffects, conflicts,
                   reportPropertyAccess, reportObjectGetOwnProperties, oldHooks,
                   pending, evaluatedNode, joinLog, applyLog, shadowLog>>

WithBranchResults(e, c, a) ==
    [e EXCEPT !.result.consequentEffects.result = c,
              !.result.alternateEffects.result = a]

\* Lines 154-157: save both branch results, put undefined in their place.
SubstitutePlaceholders ==
    /\ pc = "substitute"
    /\ saved' = [consequentResult |-> effects.result.consequentEffects.result,
                 alternateResult |-> effects.result.alternateEffects.result]
    /\ effects' = WithBranchResults(effects, "undefined", "undefined")
    /\ pc' = "join"
    /\ UNCHANGED <<entry, funcs, component, i, j, k, call, fatalOnAbrupt,
                   joinedEffects, retValue, writeEffects, conflicts,
                   reportPropertyAccess, reportObjectGetOwnProperties, oldHooks,
                   pending, evaluatedNode, handled, joinLog, applyLog, shadowLog>>

\* Join.joinEffects(realm, joinCondition, e1, e2): the joined effects hold what
\* the two arguments were when the joiner ran.
JoinEffectsOf(e1, e2) == [kind |-> "joined", first |-> e1, second |-> e2]

\* Line 158 with the two effect sets passed in the other order.
JoinEffectsSwapped ==
    /\ pc = "join"
    /\ joinedEffects' = JoinEffectsOf(effects.result.alternateEffects,
                                      effects.result.consequentEffects)
    /\ joinLog' = Append(joinLog, <<effects.result.alternateEffects,
                                    effects.result.consequentEffects>>)
    /\ pc' = "restore"
    /\ UNCHANGED <<entry, funcs, component, i, j, k, call, effects, fatalOnAbrupt, saved,
                   retValue, writeEffects, conflicts,
                   reportPropertyAccess, reportObjectGetOwnProperties, oldHooks,
                   pending, evaluatedNode, handled, applyLog, shadowLog>>

\* Line 158.
JoinEffects ==
    /\ pc = "join"
    /\ joinedEffects' = JoinEffectsOf(effects.result.consequentEffects,
                                      effects.result.alternateEffects)
    /\ joinLog' = Append(joinLog, <<effects.result.consequentEffects,
                                    effects.result.alternateEffects>>)
    /\ pc' = "restore"
    /\ UNCHANGED <<entry, funcs, component, i, j, k, call, effects, fatalOnAbrupt, saved,
                   retValue, writeEffects, conflicts,
                   reportPropertyAccess, reportObjectGetOwnProperties, oldHooks,
                   pending, evaluatedNode, handled, applyLog, shadowLog>>

\* Lines 159-160 left out: the placeholders stay in the branch effects.
RestoreResultsSkipped ==
    /\ pc = "restore"
    /\ pc' = "replay"
    /\ UNCHANGED <<entry, funcs, component, i, j, k, call, effects, fatalOnAbrupt, saved,
                   joinedEffects, retValue, writeEffects, conflicts,
                   reportPropertyAccess, reportObjectGetOwnProperties, oldHooks,
                   pending, evaluatedNode, handled, joinLog, applyLog, shadowLog>>

\* Lines 159-160.
RestoreResults ==
    /\ pc = "restore"
    /\ effects' = WithBranchResults(effects, saved.consequentResult, saved.alternateResult)
    /\ pc' = "replay"
    /\ UNCHANGED <<entry, funcs, component, i, j, k, call, fatalOnAbrupt, saved,
                   joinedEffects, retValue, writeEffects, conflicts,
                   reportPropertyAccess, reportObjectGetOwnProperties, oldHooks,
                   pending, evaluatedNode, handled, joinLog, applyLog, shadowLog>>

\* generator.getThrowOrReturn(joinCondition, consequent, alternate)
GetThrowOrReturn(result) ==
    [args |-> [kind |-> "args", consequent |-> result.consequent,
               alternate |-> result.alternate],
     buildNode |-> [kind |-> "buildNode", consequent |-> result.consequent,
                    alternate |-> result.alternate]]

\* Lines 162-168 with the two effect sets exchanged.
ReplayOrderJoinedFirst == <<"joinedEffects", "effects">>

\* Lines 162-168: the outer withEffectsAppliedInGlobalEnv applies `effects`, the
\* inner one applies `joinedEffects`, and getThrowOrReturn runs inside both.
ReplayOrder == <<"effects", "joinedEffects">>

\* Lines 161-173.
Replay ==
    /\ pc = "replay"
    /\ applyLog' = applyLog \o ReplayOrder
    /\ retValue' = [NewSummary(effects) EXCEPT
                        !.joinedEffects = joinedEffects,
                        !.returnArguments = GetThrowOrReturn(effects.result).args,
                        !.returnBuildNode = GetThrowOrReturn(effects.result).buildNode]
    /\ pc' = "returned"
    /\ UNCHANGED <<entry, funcs, component, i, j, k, call, effects, fatalOnAbrupt, saved,
                   joinedEffects, writeEffects, conflicts,
                   reportPropertyAccess, reportObjectGetOwnProperties, oldHooks,
                   pending, evaluatedNode, handled, joinLog, shadowLog>>

\* Line 349 storing every summary under the first function of the registry.
Phase1StoreUnderFirst ==
    /\ pc = "returned" /\ entry = "check"
    /\ retValue # Null
    /\ writeEffects' = MapSet(writeEffects, FunKey(1), retValue)
    /\ i' = i + 1
    /\ pc' = "phase1"
    /\ UNCHANGED <<entry, funcs, component, j, k, call, effects, fatalOnAbrupt, saved,
                   joinedEffects, retValue, conflicts,
                   reportPropertyAccess, reportObjectGetOwnProperties, oldHooks,
                   pending, evaluatedNode, handled, joinLog, applyLog, shadowLog>>

\* Lines 348-349, and the loop's step: store the summary under the function.
Phase1Store ==
    /\ pc = "returned" /\ entry = "check"
    /\ retValue # Null
    /\ writeEffects' = MapSet(writeEffects, FunKey(i), retValue)
    /\ i' = i + 1
    /\ pc' = "phase1"
    /\ UNCHANGED <<entry, funcs, component, j, k, call, effects, fatalOnAbrupt, saved,
                   joinedEffects, retValue, conflicts,
                   reportPropertyAccess, reportObjectGetOwnProperties, oldHooks,
                   pending, evaluatedNode, handled, joinLog, applyLog, shadowLog>>

\* ------------------------------------------------------------ phase 2
\* Line 350 -> 353: the first loop is over; conflicts = new Map().
Phase1Done ==
    /\ pc = "phase1" /\ i > NumFunctions
    /\ conflicts' = <<>>
    /\ i' = 1
    /\ pc' = "fun1"
    /\ UNCHANGED <<entry, funcs, component, j, k, call, effects, fatalOnAbrupt, saved,
                   joinedEffects, retValue, writeEffects,
                   reportPropertyAccess, reportObjectGetOwnProperties, oldHooks,
                   pending, evaluatedNode, handled, joinLog, applyLog, shadowLog>>

\* Line 362: e1[0] instanceof Completion && !e1[0] instanceof PossiblyNormalCompletion.
\* `!` binds tighter than instanceof: the right operand tests the boolean
\* !e1[0], and a boolean is an instance of no class.
BooleanInstanceOf(b, class) == FALSE
\* e1[0] is an object: a Value or a Completion, never falsy.
Truthy(result) == TRUE
MayTerminateAbruptly(result) ==
    IsCompletion(result.kind)
    /\ BooleanInstanceOf(~Truthy(result), "PossiblyNormalCompletion")

\* The inner loop without the test of line 373.
NextFun2NoSkip(fun1, after) == after + 1

\* The inner loop visiting only the functions after fun1: each unordered
\* pair once.
NextFun2OnlyLater(fun1, after) == IF after < fun1 THEN fun1 + 1 ELSE after + 1

\* Lines 372-373: the fun2 after j in enumeration order that is not fun1
\* (NumFunctions + 1 when there is none).
NextFun2(fun1, after) == IF after + 1 = fun1 THEN after + 2 ELSE after + 1

\* Where the loops stand once the pair (fun1, after) is done.
AfterPair(fun1, after) ==
    IF NextFun2(fun1, after) <= NumFunctions
    THEN [pc |-> "fun2", i |-> fun1, j |-> NextFun2(fun1, after)]
    ELSE [pc |-> "fun1", i |-> fun1 + 1, j |-> 0]

\* Lines 354-371: the head of the outer loop for fun1 = funcs[i].
BeginFun1 ==
    /\ pc = "fun1" /\ i <= NumFunctions
    /\ FunKey(i) \in DOMAIN writeEffects
    /\ LET e1 == writeEffects[FunKey(i)].effects IN
       IF MayTerminateAbruptly(e1.result)
       THEN /\ handled' = Append(handled, Diagnostic("PP1002", NoLoc, i))
            /\ pc' = "fatal"
            /\ UNCHANGED <<i, j>>
       ELSE /\ pc' = AfterPair(i, 0).pc
            /\ i' = AfterPair(i, 0).i
            /\ j' = AfterPair(i, 0).j
            /\ handled' = handled
    /\ UNCHANGED <<entry, funcs, component, k, call, effects, fatalOnAbrupt, saved,
                   joinedEffects, retValue, writeEffects, conflicts,
                   reportPropertyAccess, reportObjectGetOwnProperties, oldHooks,
                   pending, evaluatedNode, joinLog, applyLog, shadowLog>>

\* ------------------------------------------------------------ reportWriteConflicts
ConflictsHas(c, loc) == \E x \in 1..Len(c) : c[x].loc = loc
\* Map.set: a present key keeps its place and takes the new value.
ConflictsSet(c, loc, d) ==
    IF ConflictsHas(c, loc)
    THEN [x \in 1..Len(c) |-> IF c[x].loc = loc THEN d ELSE c[x]]
    ELSE Append(c, d)
\* Lines 394-402.
ReportConflict(c, fname, loc) == ConflictsSet(c, loc, Diagnostic("PP1003", loc, fname))

\* Lines 403-406.
WrittenObjects(pbs) == {b[1] : b \in pbs}

\* The closures of lines 408-412 and 414-418, with what they capture.
ConflictHook(fname, pbs) ==
    [kind |-> "conflictHook", fname |-> fname, pbs |-> pbs,
     writtenObjects |-> WrittenObjects(pbs)]

\* Variants of the property-access hook, each one slip away from lines 414-418:
\* the dedup test inverted, the membership test dropped, membership tested
\* per object, the dedup test dropped.
PropertyAccessHookInvertedDedup(h, c, pb, loc) ==
    IF h.kind # "conflictHook" THEN c
    ELSE IF loc = NoLoc THEN c
    ELSE IF pb \in h.pbs /\ ConflictsHas(c, loc) THEN ReportConflict(c, h.fname, loc)
    ELSE c
PropertyAccessHookAnyAccess(h, c, pb, loc) ==
    IF h.kind # "conflictHook" THEN c
    ELSE IF loc = NoLoc THEN c
    ELSE IF ~ConflictsHas(c, loc) THEN ReportConflict(c, h.fname, loc)
    ELSE c
PropertyAccessHookPerObject(h, c, pb, loc) ==
    IF h.kind # "conflictHook" THEN c
    ELSE IF loc = NoLoc THEN c
    ELSE IF pb[1] \in h.writtenObjects /\ ~ConflictsHas(c, loc)
         THEN ReportConflict(c, h.fname, loc)
    ELSE c
PropertyAccessHookNoDedup(h, c, pb, loc) ==
    IF h.kind # "conflictHook" THEN c
    ELSE IF loc = NoLoc THEN c
    ELSE IF pb \in h.pbs THEN ReportConflict(c, h.fname, loc)
    ELSE c

\* Lines 414-418 without the early return of line 416.
PropertyAccessHookNoLocationTest(h, c, pb, loc) ==
    IF h.kind # "conflictHook" THEN c
    ELSE IF pb \in h.pbs /\ ~ConflictsHas(c, loc) THEN ReportConflict(c, h.fname, loc)
    ELSE c

\* Lines 414-418: the property-access hook h called on binding pb with
\* realm.currentLocation = loc; the conflict map it leaves.
PropertyAccessHook(h, c, pb, loc) ==
    IF h.kind # "conflictHook" THEN c
    ELSE IF loc = NoLoc THEN c
    ELSE IF pb \in h.pbs /\ ~ConflictsHas(c, loc) THEN ReportConflict(c, h.fname, loc)
    ELSE c

\* Line 411 without the test of writtenObjects.
GetOwnPropertiesHookAnyObject(h, c, ob, loc) ==
    IF h.kind # "conflictHook" THEN c
    ELSE IF ~ConflictsHas(c, loc) THEN ReportConflict(c, h.fname, loc)
    ELSE c

\* Lines 408-412: the enumeration hook; invariant(location) raises.
GetOwnPropertiesRaises(h, loc) == h.kind = "conflictHook" /\ loc = NoLoc
GetOwnPropertiesHook(h, c, ob, loc) ==
    IF h.kind # "conflictHook" THEN c
    ELSE IF ob \in h.writtenObjects /\ ~ConflictsHas(c, loc) THEN ReportConflict(c, h.fname, loc)
    ELSE c

\* Line 375 and lines 394-418: build fun2's call, compute writtenObjects,
\* save both hook slots and install the two closures.
InstallHooks ==
    /\ pc = "fun2"
    /\ IF CallIsFatal(funcs[j])
       THEN /\ handled' = Append(handled, Diagnostic("PP1005", NoLoc, j))
            /\ pc' = "fatal"
            /\ UNCHANGED <<k, call, reportPropertyAccess, reportObjectGetOwnProperties,
                           oldHooks, shadowLog>>
       ELSE /\ call' = [fun |-> j, args |-> CallArgs(funcs[j])]
            /\ oldHooks' = [propertyAccess |-> reportPropertyAccess,
                            getOwnProperties |-> reportObjectGetOwnProperties]
            /\ reportObjectGetOwnProperties' =
                   ConflictHook(i, writeEffects[FunKey(i)].effects.pbs)
            /\ reportPropertyAccess' =
                   ConflictHook(i, writeEffects[FunKey(i)].effects.pbs)
            /\ shadowLog' = Append(shadowLog, <<i, j>>)
            /\ k' = 1
            /\ pc' = "shadow"
            /\ handled' = handled
    /\ UNCHANGED <<entry, funcs, component, i, j, effects, fatalOnAbrupt, saved,
                   joinedEffects, retValue, writeEffects, conflicts,
                   pending, evaluatedNode, joinLog, applyLog>>

\* ignoreErrorsIn(realm, f): the exception that leaves the scope when f
\* raises `raised`. A runtime error of the evaluated code is dropped.
IgnoreErrorsIn(raised) == IF raised = "runtime" THEN None ELSE raised

\* Line 420 without the error-ignoring scope: a runtime error of the body
\* leaves reportWriteConflicts as an exception.
ShadowStepNotIgnoring ==
    /\ pc = "shadow" /\ k <= Len(funcs[call.fun].body)
    /\ LET s == funcs[call.fun].body[k] IN
       CASE s.op \in {"read", "write"} ->
              /\ conflicts' = PropertyAccessHook(reportPropertyAccess, conflicts,
                                                 <<s.ob, s.key>>, s.loc)
              /\ IF s.raises = None
                 THEN /\ k' = k + 1
                      /\ UNCHANGED <<pc, pending>>
                 ELSE /\ pending' = s.raises
                      /\ pc' = "finally"
                      /\ k' = k
         [] s.op = "enum" ->
              IF GetOwnPropertiesRaises(reportObjectGetOwnProperties, s.loc)
              THEN /\ pending' = "internal"
                   /\ pc' = "finally"
                   /\ UNCHANGED <<conflicts, k>>
              ELSE /\ conflicts' = GetOwnPropertiesHook(reportObjectGetOwnProperties,
                                                        conflicts, s.ob, s.loc)
                   /\ k' = k + 1
                   /\ UNCHANGED <<pc, pending>>
         [] s.op = "impure" ->
              /\ pending' = s.raises
              /\ pc' = "finally"
              /\ UNCHANGED <<conflicts, k>>
    /\ UNCHANGED <<entry, funcs, component, i, j, call, effects, fatalOnAbrupt, saved,
                   joinedEffects, retValue, writeEffects,
                   reportPropertyAccess, reportObjectGetOwnProperties, oldHooks,
                   evaluatedNode, handled, joinLog, applyLog, shadowLog>>

\* Line 420, one operation of fun2's body under the installed hooks.
ShadowStep ==
    /\ pc = "shadow" /\ k <= Len(funcs[call.fun].body)
    /\ LET s == funcs[call.fun].body[k] IN
       CASE s.op \in {"read", "write"} ->
              /\ conflicts' = PropertyAccessHook(reportPropertyAccess, conflicts,
                                                 <<s.ob, s.key>>, s.loc)
              /\ IF s.raises = None
                 THEN /\ k' = k + 1
                      /\ UNCHANGED <<pc, pending>>
                 ELSE /\ pending' = IgnoreErrorsIn(s.raises)
                      /\ pc' = "finally"
                      /\ k' = k
         [] s.op = "enum" ->
              IF GetOwnPropertiesRaises(reportObjectGetOwnProperties, s.loc)
              THEN /\ pending' = IgnoreErrorsIn("internal")
                   /\ pc' = "finally"
                   /\ UNCHANGED <<conflicts, k>>
              ELSE /\ conflicts' = GetOwnPropertiesHook(reportObjectGetOwnProperties,
                                                        conflicts, s.ob, s.loc)
                   /\ k' = k + 1
                   /\ UNCHANGED <<pc, pending>>
         [] s.op = "impure" ->
              /\ pending' = IgnoreErrorsIn(s.raises)
              /\ pc' = "finally"
              /\ UNCHANGED <<conflicts, k>>
    /\ UNCHANGED <<entry, funcs, component, i, j, call, effects, fatalOnAbrupt, saved,
                   joinedEffects, retValue, writeEffects,
                   reportPropertyAccess, reportObjectGetOwnProperties, oldHooks,
                   evaluatedNode, handled, joinLog, applyLog, shadowLog>>

\* Line 420: the body ran to its end.
ShadowReturn ==
    /\ pc = "shadow" /\ k > Len(funcs[call.fun].body)
    /\ pending' = None
    /\ pc' = "finally"
    /\ UNCHANGED <<entry, funcs, component, i, j, k, call, effects, fatalOnAbrupt, saved,
                   joinedEffects, retValue, writeEffects, conflicts,
                   reportPropertyAccess, reportObjectGetOwnProperties, oldHooks,
                   evaluatedNode, handled, joinLog, applyLog, shadowLog>>

\* RestoreHooks without the finally: the slots are restored on a normal
\* return only.
RestoreHooksNoFinally ==
    /\ pc = "finally"
    /\ IF pending # None
       THEN /\ pc' = "threw"
            /\ UNCHANGED <<i, j, reportPropertyAccess, reportObjectGetOwnProperties>>
       ELSE /\ reportPropertyAccess' = oldHooks.propertyAccess
            /\ reportObjectGetOwnProperties' = oldHooks.getOwnProperties
            /\ pc' = IF (IF j + 1 = i THEN j + 2 ELSE j + 1) <= Len(funcs) THEN "fun2" ELSE "fun1"
            /\ i' = IF (IF j + 1 = i THEN j + 2 ELSE j + 1) <= Len(funcs) THEN i ELSE i + 1
            /\ j' = IF (IF j + 1 = i THEN j + 2 ELSE j + 1) <= Len(funcs)
                    THEN (IF j + 1 = i THEN j + 2 ELSE j + 1) ELSE 0
    /\ UNCHANGED <<entry, funcs, component, k, call, effects, fatalOnAbrupt, saved,
                   joinedEffects, retValue, writeEffects, conflicts, oldHooks,
                   pending, evaluatedNode, handled, joinLog, applyLog, shadowLog>>

\* Lines 421-424: the finally block, then the exception in flight propagates
\* out of checkThatFunctionsAreIndependent or the inner loop goes on.
RestoreHooks ==
    /\ pc = "finally"
    /\ reportPropertyAccess' = oldHooks.propertyAccess
    /\ reportObjectGetOwnProperties' = oldHooks.getOwnProperties
    /\ IF pending # None
       THEN /\ pc' = "threw"
            /\ UNCHANGED <<i, j>>
       ELSE /\ pc' = AfterPair(i, j).pc
            /\ i' = AfterPair(i, j).i
            /\ j' = AfterPair(i, j).j
    /\ UNCHANGED <<entry, funcs, component, k, call, effects, fatalOnAbrupt, saved,
                   joinedEffects, retValue, writeEffects, conflicts, oldHooks,
                   pending, evaluatedNode, handled, joinLog, applyLog, shadowLog>>

\* Reporting that stops after the first diagnostic.
ReportFirst(c) == IF c = <<>> THEN c ELSE <<c[1]>>

\* Lines 378-381: every pair is checked; report and fail, or return.
ReportAll(c) == c
Finish ==
    /\ pc = "fun1" /\ i > NumFunctions
    /\ IF Len(conflicts) > 0
       THEN /\ handled' = handled \o ReportAll(conflicts)
            /\ pc' = "fatal"
       ELSE /\ handled' = handled
            /\ pc' = "done"
    /\ UNCHANGED <<entry, funcs, component, i, j, k, call, effects, fatalOnAbrupt, saved,
                   joinedEffects, retValue, writeEffects, conflicts,
                   reportPropertyAccess, reportObjectGetOwnProperties, oldHooks,
                   pending, evaluatedNode, joinLog, applyLog, shadowLog>>

\* ------------------------------------------------------------ react entry
\* Line 182: _createAdditionalEffects(effects, false).
GenerateWriteEffects ==
    /\ pc = "react"
    /\ fatalOnAbrupt' = FALSE
    /\ pc' = "createAdditionalEffects"
    /\ UNCHANGED <<entry, funcs, component, i, j, k, call, effects, saved,
                   joinedEffects, retValue, writeEffects, conflicts,
                   reportPropertyAccess, reportObjectGetOwnProperties, oldHooks,
                   pending, evaluatedNode, handled, joinLog, applyLog, shadowLog>>

\* Lines 196-227: the function the summary is stored under.
ReactKey(c) ==
    IF c.isClass
    THEN IF c.status = "SIMPLE" THEN <<"componentType", 0>> ELSE <<"renderMethod", 0>>
    ELSE IF c.status = "COMPLEX" THEN <<"renderMethod", 0>> ELSE <<"componentType", 0>>

\* Lines 183-228.
ReactStore ==
    /\ pc = "returned" /\ entry = "react"
    /\ IF retValue = Null
       THEN /\ evaluatedNode' = "UNSUPPORTED_COMPLETION"
            /\ writeEffects' = writeEffects
       ELSE IF effects.result.kind = "undefined"
       THEN UNCHANGED <<evaluatedNode, writeEffects>>
       ELSE /\ writeEffects' = MapSet(writeEffects, ReactKey(component), retValue)
            /\ evaluatedNode' = evaluatedNode
    /\ pc' = "done"
    /\ UNCHANGED <<entry, funcs, component, i, j, k, call, effects, fatalOnAbrupt, saved,
                   joinedEffects, retValue, conflicts,
                   reportPropertyAccess, reportObjectGetOwnProperties, oldHooks,
                   pending, handled, joinLog, applyLog, shadowLog>>

Next ==
    \/ Phase1Done
    \/ BeginFun1
    \/ InstallHooks
    \/ ShadowStep
    \/ ShadowReturn
    \/ RestoreHooks
    \/ Finish
    \/ GenerateWriteEffects
    \/ ReactStore
    \/ Phase1Call
    \/ Phase1Evaluate
    \/ CreateAdditionalEffects
    \/ SubstitutePlaceholders
    \/ JoinEffects
    \/ RestoreResults
    \/ Replay
    \/ Phase1Store
Spec == Init /\ [][Next]_vars

\* ============================================================ properties
Funs == 1..NumFunctions
\* The operations of a body that reach a hook in its shadow evaluation: those
\* up to the first one that raises outside pure evaluation.
Executed(body) ==
    {x \in 1..Len(body) :
        body[x].op # "impure" /\ \A y \in 1..(x - 1) : body[y].raises = None}
IsAccess(s) == s.op \in {"read", "write"}
\* Operation x of function b's body is a property access, at a source
\* location, to a binding that function a wrote.
AccessCollides(a, b, x) ==
    LET s == funcs[b].body[x] IN
    IsAccess(s) /\ s.loc # NoLoc /\ <<s.ob, s.key>> \in WriteSet(funcs[a].body)
\* Operation x of b's body enumerates an object that owns a binding a wrote.
EnumCollides(a, b, x) ==
    LET s == funcs[b].body[x] IN
    s.op = "enum" /\ \E w \in WriteSet(funcs[a].body) : w[1] = s.ob
Triples == {t \in Funs \X Funs \X (0..MaxSize) :
               t[1] # t[2] /\ t[3] \in Executed(funcs[t[2]].body)}
AccessCollisions == {t \in Triples : AccessCollides(t[1], t[2], t[3])}
Collisions == {t \in Triples : AccessCollides(t[1], t[2], t[3]) \/ EnumCollides(t[1], t[2], t[3])}
LocOf(t) == funcs[t[2]].body[t[3]].loc

Logged(log) == {log[x] : x \in 1..Len(log)}
\* The shadow evaluation of fun2 = b against fun1 = a is over.
PairDone(a, b) ==
    /\ <<a, b>> \in Logged(shadowLog)
    /\ ~(pc \in {"shadow", "finally"} /\ i = a /\ j = b)
\* Both loops of phase 2 are over.
AllPairsChecked == entry = "check" /\ i > NumFunctions /\ pc \in {"fun1", "done", "fatal"}
ConflictLocs == {conflicts[x].loc : x \in 1..Len(conflicts)}

\* C1: when h's body accesses, at a location L, a binding that f wrote, the
\* shadow evaluation of h against f leaves a diagnostic at L in the conflict
\* map, the check never returns normally and, all pairs checked, it reports
\* the conflicts and fails with a FatalError; when that access is the only
\* collision of the registry the map holds exactly one diagnostic, at L,
\* naming f.
C1_WriteReadConflictIsFatal ==
    entry = "check" =>
        /\ \A t \in AccessCollisions :
              PairDone(t[1], t[2]) => LocOf(t) \in ConflictLocs
        /\ AccessCollisions # {} => pc # "done"
        /\ (AccessCollisions # {} /\ AllPairsChecked /\ pc # "fun1") =>
              (pc = "fatal" /\ Len(conflicts) >= 1 /\ handled = conflicts)
        /\ \A t \in AccessCollisions :
              (Collisions = {t} /\ AllPairsChecked) =>
                  conflicts = <<Diagnostic("PP1003", LocOf(t), t[1])>>

\* Scenario A has run to its end: f writes, h only reads what f wrote.
C1_Witness ==
    /\ AllPairsChecked /\ pc = "fatal"
    /\ NumFunctions = 2
    /\ \E t \in AccessCollisions :
          /\ Collisions = {t}
          /\ funcs[t[2]].body[t[3]].op = "read"
          /\ WriteSet(funcs[t[2]].body) = {}
          /\ conflicts = <<Diagnostic("PP1003", LocOf(t), t[1])>>

\* The objects a body touches.
Touched(f) == {f.body[x].ob : x \in {y \in 1..Len(f.body) : f.body[y].op # "impure"}}
DisjointObjects ==
    \A a \in Funs, b \in Funs : a # b => Touched(funcs[a]) \cap Touched(funcs[b]) = {}
OnlyReads == \A a \in Funs : WriteSet(funcs[a].body) = {}

\* C2: when the designated functions touch pairwise disjoint sets of objects,
\* or none of them writes, the conflict map stays empty, no conflict is ever
\* reported and, all pairs checked, the check returns normally having
\* reported nothing.
C2_DisjointFunctionsPass ==
    (entry = "check" /\ (DisjointObjects \/ OnlyReads)) =>
        /\ conflicts = <<>>
        /\ \A x \in 1..Len(handled) : handled[x].code # "PP1003"
        /\ (AllPairsChecked /\ pc # "fun1") => (pc = "done" /\ handled = <<>>)

\* The AbstractPropertyRead2 test: two functions, each reading a property of
\* its own object, checked to the end.
C2_Witness ==
    /\ entry = "check" /\ pc = "done" /\ NumFunctions = 2
    /\ OnlyReads /\ DisjointObjects
    /\ \A a \in Funs : \E x \in 1..Len(funcs[a].body) :
          funcs[a].body[x].op = "read" /\ funcs[a].body[x].loc # NoLoc
    /\ Logged(shadowLog) = {<<1, 2>>, <<2, 1>>}

\* Functions a and b write different properties of one object.
SameObjectDisjointWrites(a, b) ==
    /\ WriteSet(funcs[a].body) \cap WriteSet(funcs[b].body) = {}
    /\ \E wa \in WriteSet(funcs[a].body), wb \in WriteSet(funcs[b].body) : wa[1] = wb[1]

\* C3: a property access of the shadow evaluation to a binding outside the
\* installed write set leaves the conflict map as it is, whatever object the
\* binding belongs to; and a registry without any collision (Scenario B: the
\* functions write different properties of one object) keeps the map empty
\* and passes.
C3_ConflictsArePerBinding ==
    [][ /\ (/\ pc = "shadow" /\ k <= Len(funcs[call.fun].body)
            /\ IsAccess(funcs[call.fun].body[k])
            /\ <<funcs[call.fun].body[k].ob, funcs[call.fun].body[k].key>>
                   \notin reportPropertyAccess.pbs)
           => conflicts' = conflicts
        /\ (entry = "check" /\ Collisions = {})
           => (/\ conflicts' = <<>>
               /\ (AllPairsChecked' /\ pc' # "fun1") => pc' = "done") ]_vars

\* Scenario B checked to the end: both writes are at source locations and to
\* an object the other function wrote.
C3_Witness ==
    /\ entry = "check" /\ pc = "done" /\ NumFunctions = 2
    /\ SameObjectDisjointWrites(1, 2)
    /\ \A a \in Funs : \E x \in 1..Len(funcs[a].body) :
          funcs[a].body[x].op = "write" /\ funcs[a].body[x].loc # NoLoc
    /\ Logged(shadowLog) = {<<1, 2>>, <<2, 1>>}
    /\ conflicts = <<>>

\* C4: the conflict map holds one diagnostic per location, and a step never
\* replaces or removes a diagnostic it holds: the one kept at a location is
\* the first recorded there.
C4_FirstConflictKept ==
    [][ /\ \A x \in 1..Len(conflicts) :
              x <= Len(conflicts') /\ conflicts'[x] = conflicts[x]
        /\ \A x \in 1..Len(conflicts'), y \in 1..Len(conflicts') :
              x # y => conflicts'[x].loc # conflicts'[y].loc ]_vars

\* Two pairs with different fun1 collided at one location and one diagnostic
\* is kept.
C4_Witness ==
    /\ AllPairsChecked
    /\ Len(conflicts) = 1
    /\ \E t \in Collisions, u \in Collisions :
          t[1] # u[1] /\ LocOf(t) = LocOf(u)

\* C5: outside a shadow evaluation both hook slots hold the values they held
\* before the check, also after an error has propagated out of
\* reportWriteConflicts and after the check has ended; during the shadow
\* evaluation of a pair they hold the closures of that pair's fun1.
C5_HooksRestored ==
    IF pc \in {"shadow", "finally"}
    THEN /\ reportPropertyAccess = ConflictHook(i, WriteSet(funcs[i].body))
         /\ reportObjectGetOwnProperties = ConflictHook(i, WriteSet(funcs[i].body))
         /\ oldHooks = [propertyAccess |-> PriorPropertyAccess,
                        getOwnProperties |-> PriorGetOwnProperties]
    ELSE /\ reportPropertyAccess = PriorPropertyAccess
         /\ reportObjectGetOwnProperties = PriorGetOwnProperties

\* An error propagated out of the second shadow evaluation.
C5_Witness ==
    /\ pc = "threw" /\ Len(shadowLog) = 2
    /\ reportPropertyAccess = PriorPropertyAccess
    /\ reportObjectGetOwnProperties = PriorGetOwnProperties

OrderedPairs == {p \in Funs \X Funs : p[1] # p[2]}

\* C6: a conflict diagnostic is handed to the error handler only once every
\* ordered pair has been shadow-evaluated; then, when the conflict map is not
\* empty, every diagnostic of it is reported once and the check fails, and
\* when it is empty nothing is reported and the check returns.
C6_DecisionAfterAllPairs ==
    entry = "check" =>
        /\ (\E x \in 1..Len(handled) : handled[x].code = "PP1003")
              => (AllPairsChecked /\ pc = "fatal")
        /\ AllPairsChecked => Logged(shadowLog) = OrderedPairs
        /\ (AllPairsChecked /\ pc = "fun1") => handled = <<>>
        /\ (AllPairsChecked /\ pc = "fatal") => (conflicts # <<>> /\ handled = conflicts)
        /\ pc = "done" => (AllPairsChecked /\ conflicts = <<>> /\ handled = <<>>)

\* Two diagnostics were reported at the end.
C6_Witness ==
    /\ AllPairsChecked /\ pc = "fatal"
    /\ Len(handled) = 2 /\ handled[1].loc # handled[2].loc

\* C7: a designated function with a formal parameter that is not a plain
\* identifier makes the check fail before any shadow evaluation runs.
C7_NonIdentifierParameterIsFatal ==
    (entry = "check" /\ \E a \in Funs : HasNonIdentifier(funcs[a].params)) =>
        (shadowLog = <<>> /\ pc # "done")

\* C8: a designated function whose stored summary ends in a throw makes the
\* check fail ("may terminate abruptly"): the check does not return normally.
C8_AbruptOutcomeIsFatal ==
    (/\ entry = "check"
     /\ \E a \in Funs :
           /\ FunKey(a) \in DOMAIN writeEffects
           /\ writeEffects[FunKey(a)].effects.result.kind = "ThrowCompletion") =>
        pc # "done"

PlainOutcomes == {"undefined", "Value", "ReturnCompletion", "ThrowCompletion"}

\* C9: called on effects e whose outcome is a plain value, a return or a
\* throw, with either value of fatalOnAbrupt, _createAdditionalEffects returns
\* {effects: e, transforms: []} without the optional fields, calls neither
\* the joiner nor the error handler, replays nothing and leaves e as it was.
C9_PlainOutcomeIsIdentity ==
    [][ (pc = "createAdditionalEffects" /\ effects.result.kind \in PlainOutcomes) =>
            /\ pc' = "returned"
            /\ retValue' = [effects |-> effects, transforms |-> <<>>,
                            joinedEffects |-> Absent, returnArguments |-> Absent,
                            returnBuildNode |-> Absent]
            /\ effects' = effects
            /\ joinLog' = joinLog
            /\ handled' = handled
            /\ applyLog' = applyLog ]_vars

\* The tolerant caller got the summary of a throwing component.
C9_Witness ==
    /\ pc = "returned" /\ ~fatalOnAbrupt
    /\ effects.result.kind = "ThrowCompletion"
    /\ retValue = [effects |-> effects, transforms |-> <<>>,
                   joinedEffects |-> Absent, returnArguments |-> Absent,
                   returnBuildNode |-> Absent]

Reducible == {"undefined", "Value", "ReturnCompletion", "JoinedAbruptCompletions"}
\* A PossiblyNormalCompletion neither branch of which is a value, a return
\* or a JoinedAbruptCompletions.
UnsupportedShape(result) ==
    /\ result.kind = "PossiblyNormalCompletion"
    /\ result.consequent \notin Reducible
    /\ result.alternate \notin Reducible

\* C10: on a PossiblyNormalCompletion of unsupported shape,
\* _createAdditionalEffects with fatalOnAbrupt = false returns null, reporting
\* nothing and not calling the joiner, and
\* _generateWriteEffectsForReactComponentTree then returns without storing a
\* summary; with fatalOnAbrupt = true it reports one PP1002 diagnostic and
\* raises FatalError, and no summary is stored.
C10_UnsupportedShape ==
    [][ /\ (/\ pc = "createAdditionalEffects" /\ UnsupportedShape(effects.result)
            /\ ~fatalOnAbrupt)
           => (/\ pc' = "returned" /\ retValue' = Null
               /\ handled' = handled /\ joinLog' = joinLog
               /\ writeEffects' = writeEffects)
        /\ (pc = "returned" /\ entry = "react" /\ retValue = Null)
           => (/\ pc' = "done" /\ writeEffects' = writeEffects
               /\ handled' = handled)
        /\ (/\ pc = "createAdditionalEffects" /\ UnsupportedShape(effects.result)
            /\ fatalOnAbrupt)
           => (/\ pc' = "fatal"
               /\ Len(handled') = Len(handled) + 1
               /\ SubSeq(handled', 1, Len(handled)) = handled
               /\ handled'[Len(handled')].code = "PP1002"
               /\ joinLog' = joinLog
               /\ writeEffects' = writeEffects) ]_vars

\* The tolerant caller skipped a component of unsupported shape.
C10_Witness ==
    /\ entry = "react" /\ pc = "done"
    /\ UnsupportedShape(effects.result)
    /\ evaluatedNode = "UNSUPPORTED_COMPLETION"
    /\ writeEffects = EmptyMap /\ handled = <<>>

\* A PossiblyNormalCompletion one branch of which is a value, a return or a
\* JoinedAbruptCompletions.
SupportedShape(result) ==
    /\ result.kind = "PossiblyNormalCompletion"
    /\ (result.consequent \in Reducible \/ result.alternate \in Reducible)
\* The two branch effect sets as the joiner sees them.
JoinArguments ==
    <<[id |-> "consequentEffects", result |-> "undefined"],
      [id |-> "alternateEffects", result |-> "undefined"]>>
\* The calls of _createAdditionalEffects on a supported shape that have got
\* past line 158.
JoinsDue ==
    IF entry = "react"
    THEN IF SupportedShape(funcs[1].result)
            /\ pc \in {"restore", "replay", "returned", "done"} THEN 1 ELSE 0
    ELSE Cardinality({a \in Funs :
            /\ SupportedShape(funcs[a].result)
            /\ \/ FunKey(a) \in DOMAIN writeEffects
               \/ a = i /\ pc \in {"restore", "replay", "returned"}})

\* C11: on a PossiblyNormalCompletion of supported shape, with either value
\* of fatalOnAbrupt, _createAdditionalEffects calls the joiner exactly once,
\* on (consequentEffects, alternateEffects) in that order, and returns a
\* summary whose joinedEffects is what the joiner returned and whose
\* returnArguments and returnBuildNode are what getThrowOrReturn returned for
\* the two branches; it reports nothing.
C11_SupportedShapeIsJoined ==
    /\ Len(joinLog) = JoinsDue
    /\ \A x \in 1..Len(joinLog) : joinLog[x] = JoinArguments
    /\ (pc = "returned" /\ SupportedShape(effects.result)) =>
          /\ retValue.effects = effects
          /\ retValue.joinedEffects = [kind |-> "joined", first |-> JoinArguments[1],
                                       second |-> JoinArguments[2]]
          /\ retValue.returnArguments =
                [kind |-> "args", consequent |-> effects.result.consequent,
                 alternate |-> effects.result.alternate]
          /\ retValue.returnBuildNode =
                [kind |-> "buildNode", consequent |-> effects.result.consequent,
                 alternate |-> effects.result.alternate]
          /\ \A x \in 1..Len(handled) : handled[x].code # "PP1002"

\* Scenario C as the second of two designated functions of supported shape:
\* `if (cond) return 1; g.x = 2;` has been summarised.
C11_Witness ==
    /\ entry = "check" /\ pc = "returned" /\ i = 2 /\ fatalOnAbrupt
    /\ effects.result.kind = "PossiblyNormalCompletion"
    /\ effects.result.consequent = "ReturnCompletion"
    /\ effects.result.alternate = "Value"
    /\ Len(joinLog) = 2
    /\ retValue.joinedEffects # Absent

\* C12: when checkThatFunctionsAreIndependent has failed with a fatal error,
\* the registry returned by getAdditionalFunctionValuesToEffects
\* (this.writeEffects) does not hold the summaries of some of the designated
\* functions and not of the others.
C12_NoPartialRegistryOnFatal ==
    (entry = "check" /\ pc = "fatal") =>
        ~\E a \in Funs, b \in Funs :
            /\ FunKey(a) \in DOMAIN writeEffects
            /\ FunKey(b) \notin DOMAIN writeEffects

\* The operation the shadow evaluation is about to perform raises a runtime
\* error.
RaisesRuntimeError ==
    /\ pc = "shadow" /\ k <= Len(funcs[call.fun].body)
    /\ funcs[call.fun].body[k].raises = "runtime"
\* A shadow evaluation of b against a has ended in a runtime error.
RuntimeErrorIn(a, b) ==
    /\ PairDone(a, b)
    /\ \E x \in 1..Len(funcs[b].body) :
          /\ funcs[b].body[x].raises = "runtime"
          /\ \A y \in 1..(x - 1) : funcs[b].body[y].raises = None

\* C13: a runtime error raised by fun2's body during its shadow evaluation
\* leaves reportWriteConflicts by a normal return: no exception is in flight
\* after the error-ignoring scope, the diagnostics recorded so far (the one
\* of the raising operation's own access included) stay in the conflict map
\* through the finally block, and the loops go on with the next ordered pair;
\* a check in which no shadow evaluation raised another kind of error never
\* ends by an exception, and ends with every ordered pair shadow-evaluated.
C13_RuntimeErrorsAreIgnored ==
    [][ /\ RaisesRuntimeError =>
              /\ pc' = "finally" /\ pending' = None
              /\ \A x \in 1..Len(conflicts) :
                    x <= Len(conflicts') /\ conflicts'[x] = conflicts[x]
        /\ (pc = "finally" /\ pending = None) =>
              /\ conflicts' = conflicts
              /\ handled' = handled
              /\ pc' \in {"fun1", "fun2"}
              /\ pc' = "fun2" => (i' = i /\ j' > j /\ j' # i /\ j' <= NumFunctions
                                  /\ \A b \in (j + 1)..(j' - 1) : b = i)
              /\ pc' = "fun1" => (i' = i + 1 /\ \A b \in (j + 1)..NumFunctions : b = i)
        /\ pc' = "threw" => pending' = "internal"
        /\ (AllPairsChecked' /\ pc' # "fun1") => Logged(shadowLog') = OrderedPairs ]_vars

\* The first shadow evaluation recorded a conflict and then raised a runtime
\* error, the second one ran all the same, and the check reported the
\* conflict.
C13_Witness ==
    /\ AllPairsChecked /\ pc = "fatal" /\ NumFunctions = 2
    /\ RuntimeErrorIn(1, 2)
    /\ shadowLog = <<<<1, 2>>, <<2, 1>>>>
    /\ Len(conflicts) = 1 /\ conflicts[1].fname = 1
    /\ handled = conflicts

\* The summary _createAdditionalEffects builds for designated function a.
SummaryOf(a) ==
    LET e == EvaluateForEffects(funcs[a]) IN
    IF SupportedShape(e.result)
    THEN [effects |-> e, transforms |-> <<>>,
          joinedEffects |-> [kind |-> "joined", first |-> JoinArguments[1],
                             second |-> JoinArguments[2]],
          returnArguments |-> [kind |-> "args", consequent |-> e.result.consequent,
                               alternate |-> e.result.alternate],
          returnBuildNode |-> [kind |-> "buildNode", consequent |-> e.result.consequent,
                               alternate |-> e.result.alternate]]
    ELSE [effects |-> e, transforms |-> <<>>, joinedEffects |-> Absent,
          returnArguments |-> Absent, returnBuildNode |-> Absent]
FunKeys == {FunKey(a) : a \in Funs}
InPhase2 == entry = "check" /\ pc \in {"fun1", "fun2", "shadow", "finally", "threw", "done"}

\* C14: the check has two phases. While summaries are being built no shadow
\* evaluation has begun, and the registry holds the summaries of exactly the
\* functions before the current one; from the moment the second phase begins,
\* hence when the first shadow evaluation starts and when the check returns
\* normally, the keys of the registry are exactly the designated functions and
\* each key maps to the summary of its own function.
C14_TwoPhases ==
    entry = "check" =>
        /\ pc \in {"phase1", "evaluate", "createAdditionalEffects", "substitute",
                   "join", "restore", "replay", "returned"} =>
              /\ shadowLog = <<>>
              /\ DOMAIN writeEffects = {FunKey(a) : a \in 1..(i - 1)}
        /\ (InPhase2 \/ shadowLog # <<>>) => DOMAIN writeEffects = FunKeys
        /\ \A a \in Funs :
              FunKey(a) \in DOMAIN writeEffects => writeEffects[FunKey(a)] = SummaryOf(a)

\* The first shadow evaluation is starting with two different summaries in
\* the registry.
C14_Witness ==
    /\ entry = "check" /\ pc = "shadow" /\ k = 1 /\ shadowLog = <<<<1, 2>>>>
    /\ DOMAIN writeEffects = {FunKey(1), FunKey(2)}
    /\ writeEffects[FunKey(1)] # writeEffects[FunKey(2)]
    /\ writeEffects[FunKey(2)].joinedEffects # Absent

\* C15: a check that meets no fatal condition and no propagating error runs
\* one shadow evaluation for each ordered pair (fun1, fun2) of different
\* designated functions, n * (n - 1) in all and none twice; each of them runs
\* the call of fun2 under hooks holding the property bindings of fun1's own
\* summary, and no function is shadow-evaluated against its own write set.
C15_EveryOrderedPairOnce ==
    entry = "check" =>
        /\ \A x \in 1..Len(shadowLog) :
              /\ shadowLog[x] \in OrderedPairs
              /\ \A y \in 1..Len(shadowLog) : x # y => shadowLog[x] # shadowLog[y]
        /\ pc \in {"shadow", "finally"} =>
              /\ shadowLog[Len(shadowLog)] = <<i, j>>
              /\ call.fun = j /\ i # j
              /\ reportPropertyAccess.pbs = writeEffects[FunKey(i)].effects.pbs
              /\ reportPropertyAccess.pbs = WriteSet(funcs[i].body)
              /\ reportObjectGetOwnProperties.writtenObjects =
                    {b[1] : b \in WriteSet(funcs[i].body)}
        /\ AllPairsChecked =>
              /\ Len(shadowLog) = NumFunctions * (NumFunctions - 1)
              /\ Logged(shadowLog) = OrderedPairs

\* Two functions with different write sets, each checked against the other's.
C15_Witness ==
    /\ AllPairsChecked /\ NumFunctions = 2
    /\ shadowLog = <<<<1, 2>>, <<2, 1>>>>
    /\ WriteSet(funcs[1].body) # {} /\ WriteSet(funcs[2].body) # {}
    /\ WriteSet(funcs[1].body) # WriteSet(funcs[2].body)

\* The operation the shadow evaluation is about to perform.
AtOperation(op) ==
    /\ pc = "shadow" /\ k <= Len(funcs[call.fun].body)
    /\ funcs[call.fun].body[k].op \in op
CurrentOp == funcs[call.fun].body[k]
\* The objects owning a binding of the write set of fun1 = funcs[i].
OwnersOfWrites == {b[1] : b \in WriteSet(funcs[i].body)}

\* C16: when the shadow evaluation of fun2 enumerates the own properties of
\* an object at location L: if the object owns a binding that fun1 wrote and
\* the conflict map has no diagnostic at L, a diagnostic at L naming fun1 is
\* added to the map, whatever properties fun2 accesses; if the map has one at
\* L, or the object owns no binding fun1 wrote, the map is left as it is.
C16_EnumerationOfWrittenObject ==
    [][ AtOperation({"enum"}) =>
            IF CurrentOp.ob \in OwnersOfWrites /\ CurrentOp.loc \notin ConflictLocs
            THEN conflicts' = Append(conflicts, Diagnostic("PP1003", CurrentOp.loc, i))
            ELSE conflicts' = conflicts ]_vars

\* fun2 does nothing but enumerate an object of which fun1 wrote a property,
\* and the check failed on the diagnostic at the enumeration.
C16_Witness ==
    /\ AllPairsChecked /\ pc = "fatal" /\ NumFunctions = 2
    /\ \E a \in Funs, b \in Funs :
          /\ a # b
          /\ Len(funcs[b].body) = 1 /\ funcs[b].body[1].op = "enum"
          /\ funcs[b].body[1].ob \in {w[1] : w \in WriteSet(funcs[a].body)}
          /\ conflicts = <<Diagnostic("PP1003", funcs[b].body[1].loc, a)>>

\* C17: when the property-access hook fires during a shadow evaluation with
\* no current source location, it returns without raising and the conflict
\* map is left as it is, also when the accessed binding is in the write set:
\* the evaluation goes on with the next operation.
C17_NoLocationIsSkipped ==
    [][ (AtOperation({"read", "write"}) /\ CurrentOp.loc = NoLoc) =>
            /\ conflicts' = conflicts
            /\ pc' = "shadow" /\ k' = k + 1
            /\ pending' = pending ]_vars

\* fun2 accessed, without a location, a binding fun1 wrote, and the check
\* returned normally.
C17_Witness ==
    /\ entry = "check" /\ pc = "done" /\ NumFunctions = 2
    /\ shadowLog = <<<<1, 2>>, <<2, 1>>>>
    /\ conflicts = <<>>
    /\ \E x \in 1..Len(funcs[2].body) :
          /\ IsAccess(funcs[2].body[x]) /\ funcs[2].body[x].loc = NoLoc
          /\ <<funcs[2].body[x].ob, funcs[2].body[x].key>> \in WriteSet(funcs[1].body)

\* The Effects _createAdditionalEffects was called on.
CapturedEffects == EvaluateForEffects(funcs[IF entry = "react" THEN 1 ELSE call.fun])
InCreateAdditionalEffects ==
    pc \in {"createAdditionalEffects", "substitute", "join", "restore", "replay", "returned"}

\* C18: the placeholders of _createAdditionalEffects are temporary. The
\* joiner is only ever called on branch effects whose outcome is undefined;
\* between the substitution and the restoring the originals are held in
\* consequentResult and alternateResult; and once a summary is returned the
\* Effects, the outcome slots of both branch effects included, are those the
\* call was made on, and they are the summary's effects.
C18_PlaceholdersAreTemporary ==
    /\ \A x \in 1..Len(joinLog) :
          joinLog[x][1].result = "undefined" /\ joinLog[x][2].result = "undefined"
    /\ pc \in {"join", "restore"} =>
          /\ effects.result.consequentEffects.result = "undefined"
          /\ effects.result.alternateEffects.result = "undefined"
          /\ saved.consequentResult = CapturedEffects.result.consequentEffects.result
          /\ saved.alternateResult = CapturedEffects.result.alternateEffects.result
    /\ (InCreateAdditionalEffects /\ pc \notin {"join", "restore"}) =>
          effects = CapturedEffects
    /\ (pc = "returned" /\ retValue # Null) => retValue.effects = CapturedEffects

\* The summary of a rendered component whose branches end in a throw and in
\* a value has been stored: the joiner saw placeholders, the stored effects
\* have the branch outcomes.
C18_Witness ==
    /\ entry = "react" /\ pc = "done"
    /\ joinLog = <<JoinArguments>>
    /\ effects.result.consequentEffects.result = "ThrowCompletion"
    /\ effects.result.alternateEffects.result = "Value"
    /\ \E key \in DOMAIN writeEffects : writeEffects[key].effects = effects

\* The calls of _createAdditionalEffects on a supported shape that have got
\* past line 168.
JoinsDueReplayed ==
    IF entry = "react"
    THEN IF SupportedShape(funcs[1].result) /\ pc \in {"returned", "done"} THEN 1 ELSE 0
    ELSE Cardinality({a \in Funs :
            /\ SupportedShape(funcs[a].result)
            /\ \/ FunKey(a) \in DOMAIN writeEffects
               \/ a = i /\ pc = "returned"})

\* C19 as stated: on the supported PossiblyNormalCompletion path the
\* parameters of the return or throw are computed with the joined effects
\* applied first and the original effects applied second.
C19_ReplayJoinedThenOriginal ==
    (pc = "returned" /\ SupportedShape(effects.result)) =>
        /\ Len(applyLog) >= 2
        /\ SubSeq(applyLog, Len(applyLog) - 1, Len(applyLog)) = <<"joinedEffects", "effects">>

\* C19, amended: on the supported PossiblyNormalCompletion path the
\* parameters of the return or throw are computed with the original effects
\* applied first and the joined effects applied second, inside them; each
\* such call applies each of the two once and a call on another outcome
\* applies nothing.
C19_ReplayOriginalThenJoined ==
    /\ Len(applyLog) = 2 * JoinsDueReplayed
    /\ \A x \in 1..Len(applyLog) :
          applyLog[x] = IF x % 2 = 1 THEN "effects" ELSE "joinedEffects"
    /\ (pc = "returned" /\ SupportedShape(effects.result)) =>
          /\ Len(applyLog) >= 2
          /\ retValue.returnArguments # Absent /\ retValue.returnBuildNode # Absent

\* A designated function of supported shape has been summarised after one of
\* another outcome.
C19_Witness ==
    /\ entry = "check" /\ pc = "returned" /\ i = 2
    /\ SupportedShape(effects.result)
    /\ ~SupportedShape(funcs[1].result)
    /\ applyLog = <<"effects", "joinedEffects">>

\* The same designated functions enumerated in another order.
Orders(n) == {p \in [1..n -> 1..n] : \A x \in 1..n, y \in 1..n : x # y => p[x] # p[y]}
Reordered(reg, p) == [x \in 1..Len(reg) |-> reg[p[x]]]
\* The first error the body raises outside pure evaluation ("none": none).
RECURSIVE FirstRaised(_)
FirstRaised(body) ==
    IF body = <<>> THEN None
    ELSE IF Head(body).raises # None THEN Head(body).raises
    ELSE FirstRaised(Tail(body))
\* The locations at which the body of some function of the registry, shadow
\* evaluated, accesses a binding or enumerates an object that another function
\* of the registry wrote.
CollisionLocsOf(reg) ==
    {reg[t[2]].body[t[3]].loc :
        t \in {u \in (1..Len(reg)) \X (1..Len(reg)) \X (1..MaxSize) :
                 /\ u[1] # u[2]
                 /\ u[3] \in Executed(reg[u[2]].body)
                 /\ LET s == reg[u[2]].body[u[3]] IN
                    \/ /\ IsAccess(s) /\ s.loc # NoLoc
                       /\ <<s.ob, s.key>> \in WriteSet(reg[u[1]].body)
                    \/ /\ s.op = "enum"
                       /\ \E w \in WriteSet(reg[u[1]].body) : w[1] = s.ob}}
\* How the check of the registry ends.
ResultOf(reg) ==
    IF \E a \in 1..Len(reg) :
          CallIsFatal(reg[a]) \/ (reg[a].result.kind = "PossiblyNormalCompletion"
                                  /\ ~SupportedShape(reg[a].result))
    THEN "fatal"
    ELSE IF Len(reg) >= 2 /\ \E a \in 1..Len(reg) : FirstRaised(reg[a].body) = "internal"
    THEN "threw"
    ELSE IF CollisionLocsOf(reg) # {} THEN "fatal"
    ELSE "done"

\* C20: the locations of the conflict map once every pair is checked, and
\* the way the check ends (normal return, fatal error, or an error that
\* propagates), are those of the same designated functions enumerated in any
\* other order; the function named by the diagnostic kept at a location is
\* the fun1 of the first pair that collided there, which depends on the order.
C20_OrderIndependent ==
    entry = "check" =>
        /\ AllPairsChecked => ConflictLocs = CollisionLocsOf(funcs)
        /\ pc \in {"done", "fatal", "threw"} => pc = ResultOf(funcs)
        /\ \A p \in Orders(NumFunctions) :
              /\ CollisionLocsOf(Reordered(funcs, p)) = CollisionLocsOf(funcs)
              /\ ResultOf(Reordered(funcs, p)) = ResultOf(funcs)
        /\ \A x \in 1..Len(conflicts) :
              \E b \in Funs \ {conflicts[x].fname} :
                  /\ <<conflicts[x].fname, b>> \in Logged(shadowLog)
                  /\ conflicts[x].loc \in
                        CollisionLocsOf(<<funcs[conflicts[x].fname], funcs[b]>>)

\* Two different functions each access, at its own location, the binding the
\* other one wrote: the map holds both locations, in the order of the pairs,
\* and they are the locations the other order finds.
C20_Witness ==
    /\ AllPairsChecked /\ pc = "fatal" /\ NumFunctions = 2
    /\ funcs[1] # funcs[2]
    /\ Len(conflicts) = 2
    /\ conflicts[1].fname = 1 /\ conflicts[2].fname = 2
    /\ ConflictLocs = CollisionLocsOf(<<funcs[2], funcs[1]>>)

====
